---- MODULE Spec2Model ----
(***************************************************************************)
(* Output-lifecycle core of df-analyze: writable-root resolution           *)
(* (ProgramDirs), option construction (ProgramOptions / get_options),      *)
(* dual-format persistence (try_save) and the grid run loop                *)
(* (run_analysis).                                                         *)
(*                                                                         *)
(* Paths, names and exception types are strings.  The filesystem is a      *)
(* function from the paths of interest to what is found there.             *)
(***************************************************************************)
EXTENDS Integers, Sequences, FiniteSets, TLC

VARIABLES
    pc,     \* position of the program / of the call under study
    args,   \* the inputs of the call (command line, arguments, environment)
    fs,     \* directories: path -> kind of entry found at that path
    disk,   \* artifact files: path -> content, for the files written
    out,    \* what has been printed to standard output, in order
    ret,    \* what the call returned or raised
    run     \* locals of __main__ / run_analysis

vars == <<pc, args, fs, disk, out, ret, run>>

NONE == "None"
NoExc == "none"

(***************************************************************************)
(* Filesystem                                                              *)
(***************************************************************************)
\* absent: nothing there; dir_rw: writable directory; dir_ro: directory
\* without write permission; file_rw: a writable regular file.
Kinds == {"absent", "dir_rw", "dir_ro", "file_rw"}

JOBLIB == "__JOBLIB_CACHE__"

ReqRoot == "/req/out"
HomeDefault == "~/df-analyze-outputs"
CwdDefault == "./df-analyze-outputs"
TmpDir == "/tmp/df_analyze_tmp0"
\* ensure_outdir's default: datapath.parent / f"df-analyze-results__{datapath.stem}"
OutDefault == "/data/df-analyze-results__data"
Roots == {ReqRoot, HomeDefault, CwdDefault, TmpDir, OutDefault}

\* the fixed tree below a root, as ProgramDirs.new spells it
SubDirs == {JOBLIB, "inspection", "features", "features/associations",
            "features/predictions", "selection", "tuning", "results"}
Created == SubDirs \ {JOBLIB}

Sub(root, s) == root \o "/" \o s

TreePaths == Roots \cup {Sub(r, s) : r \in Roots, s \in SubDirs}

\* os.access(path, os.W_OK)
Access(f, p) == f[p] \in {"dir_rw", "file_rw"}

IsDir(f, p) == f[p] \in {"dir_rw", "dir_ro"}

\* Path.mkdir(exist_ok=True, parents=True): an existing directory is left
\* alone, a missing one is created, anything else there is FileExistsError.
Mkdir(f, p) ==
    CASE f[p] = "file_rw" -> [exc |-> "FileExistsError", fs |-> f]
      [] f[p] = "absent"  -> [exc |-> NoExc, fs |-> [f EXCEPT ![p] = "dir_rw"]]
      [] OTHER            -> [exc |-> NoExc, fs |-> f]

\* tempfile.mkdtemp(prefix=...): what the environment lets it do
MkdtempOutcomes == {"ok", "FileExistsError", "OSError"}

(***************************************************************************)
(* ProgramDirs.configure_root                                              *)
(***************************************************************************)
W_Trying == "Do not have write permissions. Trying cwd default"
W_Temp == "Did not have write permissions. Created a temporary directory"
W_Existing == "Found existing temporary data. Holding results in memory"
W_NoTemp == "Could not create temporary directory. Falling back to memory"

CR(root, nc, exc, f, tried, warned) ==
    [root |-> root, needs_clean |-> nc, exc |-> exc, fs |-> f,
     tried |-> tried, warned |-> warned]

\* the same return with the clean-up flag always set
MkdirReturn_AlwaysClean(outdir, nc, f, tried, warned) ==
    LET m == Mkdir(f, outdir)
    IN  IF m.exc # NoExc
        THEN CR(NONE, TRUE, m.exc, m.fs, tried, warned)
        ELSE CR(outdir, TRUE, NoExc, m.fs, tried, warned)

\* outdir.mkdir(exist_ok=True, parents=True); return outdir, needs_clean
MkdirReturn(outdir, nc, f, tried, warned) ==
    LET m == Mkdir(f, outdir)
    IN  IF m.exc # NoExc
        THEN CR(NONE, nc, m.exc, m.fs, tried, warned)
        ELSE CR(outdir, nc, NoExc, m.fs, tried, warned)

\* the temporary-directory branch, with its own two handlers
ConfigureTemp(f, mk, tried, warned) ==
    CASE mk = "ok" ->
            MkdirReturn(TmpDir, TRUE, [f EXCEPT ![TmpDir] = "dir_rw"],
                        Append(tried, TmpDir), Append(warned, W_Temp))
      [] mk = "FileExistsError" ->
            CR(NONE, FALSE, NoExc, f, Append(tried, TmpDir),
               Append(warned, W_Existing))
      [] OTHER ->
            CR(NONE, FALSE, NoExc, f, Append(tried, TmpDir),
               Append(warned, W_NoTemp))

\* the body of the outer try
ConfigureRootTry(root, f, mk) ==
    IF root # NONE /\ ~Access(f, root)
    THEN CR(NONE, FALSE, "PermissionError", f, <<root>>, <<>>)
    ELSE LET outdir == IF root # NONE THEN root ELSE HomeDefault
         IN  IF Access(f, outdir)
             THEN MkdirReturn(outdir, FALSE, f, <<outdir>>, <<>>)
             ELSE IF ~Access(f, CwdDefault)
                  THEN ConfigureTemp(f, mk, <<outdir, CwdDefault>>,
                                     <<W_Trying>>)
                  ELSE MkdirReturn(CwdDefault, FALSE, f,
                                   <<outdir, CwdDefault>>, <<W_Trying>>)

\* the outer handler: every exception of the body becomes (None, False)
ConfigureRoot(root, f, mk) ==
    LET r == ConfigureRootTry(root, f, mk)
    IN  IF r.exc # NoExc
        THEN CR(NONE, FALSE, NoExc, r.fs, r.tried, Append(r.warned, W_NoTemp))
        ELSE r

(***************************************************************************)
(* ProgramDirs.new                                                         *)
(***************************************************************************)
FieldOrder == <<"root", "joblib_cache", "inspection", "features",
                "associations", "predictions", "selection", "tuning",
                "results", "needs_clean">>

ProgramDirsDefault ==
    [root |-> NONE, joblib_cache |-> NONE, inspection |-> NONE,
     features |-> NONE, associations |-> NONE, predictions |-> NONE,
     selection |-> NONE, tuning |-> NONE, results |-> NONE,
     needs_clean |-> FALSE]

ProgramDirsAt(root, nc) ==
    [root |-> root, joblib_cache |-> Sub(root, JOBLIB),
     inspection |-> Sub(root, "inspection"),
     features |-> Sub(root, "features"),
     associations |-> Sub(root, "features/associations"),
     predictions |-> Sub(root, "features/predictions"),
     selection |-> Sub(root, "selection"),
     tuning |-> Sub(root, "tuning"),
     results |-> Sub(root, "results"),
     needs_clean |-> nc]

\* `for path in new.__dict__`: iterating a dict yields its keys
DictIter(new) == FieldOrder

\* isinstance(x, Path): the field names are plain strings, not paths
IsPath(x) == x \in TreePaths

\* "JOBLIB" in str(path)
HasJoblib(p) == p \in {Sub(r, JOBLIB) : r \in Roots}

\* the loop of ProgramDirs.new from item k on: [failed, fs]
RECURSIVE MkdirLoop(_, _, _)
MkdirLoop(items, k, f) ==
    IF k > Len(items) THEN [failed |-> FALSE, fs |-> f]
    ELSE IF IsPath(items[k]) /\ ~HasJoblib(items[k])
         THEN LET m == Mkdir(f, items[k])
              IN  IF m.exc # NoExc
                  THEN [failed |-> TRUE, fs |-> m.fs]
                  ELSE MkdirLoop(items, k + 1, m.fs)
         ELSE MkdirLoop(items, k + 1, f)

New(root, f, mk) ==
    LET r == ConfigureRoot(root, f, mk)
    IN  IF r.root = NONE
        THEN [dirs |-> ProgramDirsDefault, exc |-> r.exc, fs |-> r.fs,
              tried |-> r.tried, warned |-> r.warned]
        ELSE LET new == ProgramDirsAt(r.root, r.needs_clean)
                 l == MkdirLoop(DictIter(new), 1, r.fs)
             IN  IF l.failed
                 THEN [dirs |-> ProgramDirsDefault, exc |-> NoExc,
                       fs |-> l.fs, tried |-> r.tried,
                       warned |-> Append(r.warned, "Got error creating output directories")]
                 ELSE [dirs |-> new, exc |-> NoExc, fs |-> l.fs,
                       tried |-> r.tried, warned |-> r.warned]

(***************************************************************************)
(* Calls of ProgramDirs.configure_root and ProgramDirs.new                 *)
(***************************************************************************)
\* A filesystem: each root is of some kind, the temporary directory is yet
\* to be made, and below an existing root at most one place of the tree is
\* taken by a regular file.
FsOf(kinds, blocked) ==
    [p \in TreePaths |->
        IF p \in Roots THEN kinds[p]
        ELSE IF \E r \in Roots : p = Sub(r, blocked) /\ kinds[r] \in {"dir_rw", "dir_ro"}
             THEN "file_rw" ELSE "absent"]

RootKinds ==
    {k \in [Roots -> Kinds] : k[TmpDir] = "absent" /\ k[OutDefault] = "absent"}

InitDirs ==
    /\ pc = "dirs_call"
    /\ \E root \in {NONE, ReqRoot}, mk \in MkdtempOutcomes,
          k \in RootKinds, b \in Created \cup {NONE} :
          /\ args = [root |-> root, mkdtemp |-> mk, fs0 |-> FsOf(k, b)]
          /\ fs = FsOf(k, b)
    /\ disk = <<>>
    /\ out = <<>>
    /\ ret = NONE
    /\ run = NONE

CallConfigureRoot ==
    /\ pc = "dirs_call"
    /\ LET r == ConfigureRoot(args.root, fs, args.mkdtemp)
       IN  /\ ret' = [root |-> r.root, needs_clean |-> r.needs_clean,
                      exc |-> r.exc, tried |-> r.tried, warned |-> r.warned]
           /\ fs' = r.fs
    /\ pc' = "configure_root_returned"
    /\ UNCHANGED <<args, disk, out, run>>

CallNew ==
    /\ pc = "dirs_call"
    /\ LET r == New(args.root, fs, args.mkdtemp)
       IN  /\ ret' = [dirs |-> r.dirs, exc |-> r.exc, tried |-> r.tried,
                      warned |-> r.warned]
           /\ fs' = r.fs
    /\ pc' = "new_returned"
    /\ UNCHANGED <<args, disk, out, run>>

NextDirs == CallConfigureRoot \/ CallNew

SpecDirs == InitDirs /\ [][NextDirs]_vars

\* C1: configure_root called with an explicitly requested root that is not
\* writable ends in a fatal error: PermissionError reaches the caller and no
\* root, neither a fallback directory nor None, is returned.
C1_ExplicitRootFatal ==
    (/\ pc = "configure_root_returned"
     /\ args.root # NONE
     /\ ~Access(args.fs0, args.root))
        => ret.exc = "PermissionError"

\* C2: with no requested root, configure_root never raises and walks the
\* chain home default, working-directory default, temporary directory, None
\* in that order, each step only after the one before it proved unavailable;
\* home unwritable and the working-directory default a writable directory
\* gives that directory with needs_clean false; nothing writable and no
\* temporary directory gives None.
C2_FallbackChain ==
    (pc = "configure_root_returned" /\ args.root = NONE) =>
        /\ ret.exc = NoExc
        /\ ret.tried = SubSeq(<<HomeDefault, CwdDefault, TmpDir>>, 1, Len(ret.tried))
        /\ Len(ret.tried) >= 2 => ~Access(args.fs0, HomeDefault)
        /\ Len(ret.tried) >= 3 => ~Access(args.fs0, CwdDefault)
        /\ ret.root = NONE =>
              (Len(ret.tried) = 3 /\ args.mkdtemp # "ok")
        /\ (~Access(args.fs0, HomeDefault) /\ args.fs0[CwdDefault] = "dir_rw")
              => (ret.root = CwdDefault /\ ret.needs_clean = FALSE)
        /\ (/\ ~Access(args.fs0, HomeDefault)
            /\ ~Access(args.fs0, CwdDefault)
            /\ args.mkdtemp # "ok") => ret.root = NONE

\* C3: ProgramDirs.new is all-or-nothing: a returned non-None root has every
\* subdirectory of the tree but the memoization cache on disk, and a returned
\* None root leaves no directory of the tree behind that was not there before.
C3_AllOrNothing ==
    pc = "new_returned" =>
        /\ ret.dirs.root # NONE =>
              \A s \in Created : IsDir(fs, Sub(ret.dirs.root, s))
        /\ ret.dirs.root = NONE =>
              \A r \in Roots : \A s \in Created :
                  fs[Sub(r, s)] = args.fs0[Sub(r, s)]

\* C19: the ProgramDirs that new returns has needs_clean set only when its
\* root is the temporary directory configure_root made itself; a requested
\* root, the home default and the working-directory default come with
\* needs_clean false, and a None root comes with needs_clean false and every
\* subdirectory field None.
C19_CleanOnlyTemp ==
    pc = "new_returned" =>
        /\ ret.dirs.needs_clean =>
              /\ ret.dirs.root = TmpDir
              /\ args.mkdtemp = "ok"
              /\ args.fs0[TmpDir] = "absent" /\ IsDir(fs, TmpDir)
        /\ ret.dirs.root \in {ReqRoot, HomeDefault, CwdDefault} =>
              ~ret.dirs.needs_clean
        /\ ret.dirs.root = NONE =>
              /\ ~ret.dirs.needs_clean
              /\ \A k \in DOMAIN ret.dirs \ {"root", "needs_clean"} :
                    ret.dirs[k] = NONE

C19_Witness ==
    /\ pc = "new_returned"
    /\ ret.dirs.root = TmpDir
    /\ ret.dirs.needs_clean
    /\ ret.dirs.results = Sub(TmpDir, "results")

(***************************************************************************)
(* get_options and ProgramOptions.__init__                                 *)
(***************************************************************************)
MaxRaw == 2

\* Python's order of the option names used here (str comparison)
NameOrder == <<"auc", "constant", "correlated", "d", "knn", "linear", "none",
               "pca", "step-up", "svm">>

Rank(s) == CHOOSE i \in 1..Len(NameOrder) : NameOrder[i] = s

SetOf(seq) == {seq[i] : i \in DOMAIN seq}

\* sorted(S) as a tuple
RECURSIVE SortedTuple(_)
SortedTuple(S) ==
    IF S = {} THEN <<>>
    ELSE LET m == CHOOSE x \in S : \A y \in S : Rank(x) <= Rank(y)
         IN  <<m>> \o SortedTuple(S \ {m})

\* tuple(raw): the list as given, repeats and order kept
Normalize_AsGiven(raw) == raw

\* tuple(sorted(set(raw)))
Normalize(raw) == SortedTuple(SetOf(raw))

\* what `nargs="+"` can deliver: non-empty lists, repeats allowed
RawLists(names) == UNION {[1..n -> names] : n \in 1..MaxRaw}

SpreadsheetPath == "/data/data.xlsx"
DfPath == "/data/data.csv"
DataKinds == {"file", "dir", "absent"}

FeatSelNames == {"d", "none", "step-up"}
ClassifierNames == {"knn", "svm"}

\* resolved_path(p): Path(None) is a TypeError, re-raised as ValueError
ResolvedPath(p) ==
    IF p = NONE THEN [exc |-> "ValueError", path |-> NONE]
    ELSE [exc |-> NoExc, path |-> p]

\* ProgramOptions.validate_datapath
ValidateDatapath(df_path, kinds) ==
    LET r == ResolvedPath(df_path)
    IN  IF r.exc # NoExc THEN r
        ELSE IF kinds[r.path] = "absent"
             THEN [exc |-> "FileNotFoundError", path |-> NONE]
             ELSE IF kinds[r.path] # "file"
                  THEN [exc |-> "FileNotFoundError", path |-> NONE]
                  ELSE [exc |-> NoExc, path |-> r.path]

\* ProgramOptions.ensure_outdir
EnsureOutdir(datapath, outdir, f) ==
    LET o == IF outdir = NONE THEN OutDefault ELSE outdir
    IN  IF f[o] # "absent"
        THEN IF ~IsDir(f, o)
             THEN [exc |-> "FileExistsError", outdir |-> NONE, fs |-> f]
             ELSE [exc |-> NoExc, outdir |-> o, fs |-> f]
        ELSE [exc |-> NoExc, outdir |-> o, fs |-> [f EXCEPT ![o] = "dir_rw"]]

\* setup_io(outdir): the provisioning of the program directories, once
SetupIo(outdir, f, mk) == New(outdir, f, mk)

\* the datapath argument get_options hands to ProgramOptions
DatapathArg(cargs) ==
    IF cargs.df = NONE THEN cargs.spreadsheet ELSE cargs.spreadsheet

Self0 ==
    [datapath |-> NONE, target |-> NONE, drop_nan |-> NONE,
     feat_clean |-> <<>>, feat_select |-> <<>>, n_feat |-> 0, mode |-> NONE,
     classifiers |-> <<>>, regressors |-> <<>>, htune_trials |-> 0,
     test_val_sizes |-> <<>>, outdir |-> NONE,
     program_dirs |-> ProgramDirsDefault, verbosity |-> NONE,
     cleaning_options |-> NONE, selection_options |-> NONE]

InitOpts ==
    /\ pc = "get_options"
    /\ \E sp \in {NONE, SpreadsheetPath}, df \in {NONE, DfPath},
          mode \in {"classify", "regress"},
          fsel \in RawLists(FeatSelNames), cls \in RawLists(ClassifierNames),
          od \in {NONE, ReqRoot}, ok \in Kinds,
          dk \in [{SpreadsheetPath, DfPath} -> DataKinds] :
          LET k == [r \in Roots |->
                        IF r = (IF od = NONE THEN OutDefault ELSE od)
                        THEN ok ELSE "absent"]
          IN  /\ args = [spreadsheet |-> sp, df |-> df, mode |-> mode,
                         feat_select |-> fsel, classifiers |-> cls,
                         regressors |-> <<"linear">>,
                         feat_clean |-> <<"constant">>,
                         target |-> "target", drop_nan |-> "none",
                         n_feat |-> 10, htune_trials |-> 100,
                         test_val_sizes |-> [tuple |-> FALSE, value |-> <<5>>],
                         verbosity |-> "INFO",
                         outdir |-> od, datakinds |-> dk, mkdtemp |-> "ok",
                         fs0 |-> FsOf(k, NONE)]
              /\ fs = FsOf(k, NONE)
    /\ disk = <<>>
    /\ out = <<>>
    /\ ret = [exc |-> NoExc, at |-> NONE]
    /\ run = Self0

Raise(e, where) ==
    /\ pc' = "raised"
    /\ ret' = [exc |-> e, at |-> where]

\* get_options: the source check, then the call of ProgramOptions(...)
GetOptions ==
    /\ pc = "get_options"
    /\ IF args.spreadsheet = NONE /\ args.df = NONE
       THEN Raise("ValueError", "get_options") /\ UNCHANGED run
       ELSE /\ pc' = "validate_datapath"
            /\ run' = [run EXCEPT !.datapath = DatapathArg(args)]
            /\ UNCHANGED ret
    /\ UNCHANGED <<args, fs, disk, out>>

\* self.datapath = self.validate_datapath(datapath)
InitValidateDatapath ==
    /\ pc = "validate_datapath"
    /\ LET r == ValidateDatapath(run.datapath, args.datakinds)
       IN  IF r.exc # NoExc
           THEN Raise(r.exc, "validate_datapath") /\ UNCHANGED run
           ELSE /\ pc' = "assign"
                /\ run' = [run EXCEPT !.datapath = r.path]
                /\ UNCHANGED ret
    /\ UNCHANGED <<args, fs, disk, out>>

\* the plain and the normalised assignments
Assign(self, a) ==
    [self EXCEPT !.target = a.target,
                 !.drop_nan = a.drop_nan,
                 !.feat_clean = Normalize(a.feat_clean),
                 !.feat_select = Normalize(a.feat_select),
                 !.n_feat = a.n_feat,
                 !.mode = a.mode,
                 !.classifiers = Normalize(a.classifiers),
                 !.regressors = Normalize(a.regressors),
                 !.htune_trials = a.htune_trials,
                 !.verbosity = a.verbosity]

InitAssign ==
    /\ pc = "assign"
    /\ run' = Assign(run, args)
    /\ pc' = "ensure_outdir"
    /\ UNCHANGED <<args, fs, disk, out, ret>>

\* self.outdir = self.ensure_outdir(self.datapath, outdir)
InitEnsureOutdir ==
    /\ pc = "ensure_outdir"
    /\ LET r == EnsureOutdir(run.datapath, args.outdir, fs)
       IN  IF r.exc # NoExc
           THEN Raise(r.exc, "ensure_outdir") /\ UNCHANGED <<run, fs>>
           ELSE /\ pc' = "setup_io"
                /\ run' = [run EXCEPT !.outdir = r.outdir]
                /\ fs' = r.fs
                /\ UNCHANGED ret
    /\ UNCHANGED <<args, disk, out>>

\* self.program_dirs = setup_io(self.outdir)
InitSetupIo ==
    /\ pc = "setup_io"
    /\ LET r == SetupIo(run.outdir, fs, args.mkdtemp)
       IN  /\ run' = [run EXCEPT !.program_dirs = r.dirs]
           /\ fs' = r.fs
    /\ pc' = "keys"
    /\ UNCHANGED <<args, disk, out, ret>>

CleaningOptions(self) ==
    [datapath |-> self.datapath, target |-> self.target,
     feat_clean |-> self.feat_clean, drop_nan |-> self.drop_nan]

\* the selection key without the cleaning key
SelectionOptions_Alone(self, cleaning) ==
    [cleaning_options |-> NONE, mode |-> self.mode,
     classifiers |-> self.classifiers, regressors |-> self.regressors,
     feat_select |-> self.feat_select, n_feat |-> self.n_feat]

SelectionOptions(self, cleaning) ==
    [cleaning_options |-> cleaning, mode |-> self.mode,
     classifiers |-> self.classifiers, regressors |-> self.regressors,
     feat_select |-> self.feat_select, n_feat |-> self.n_feat]

\* sorted(S) of numbers, as a tuple
RECURSIVE SortedSizes(_)
SortedSizes(S) ==
    IF S = {} THEN <<>>
    ELSE LET m == CHOOSE x \in S : \A y \in S : x <= y
         IN  <<m>> \o SortedSizes(S \ {m})

\* the isinstance(test_val_sizes, (int, float)) branches; the argument is
\* [tuple, value], a single number x being held as value = <<x>>
TestValSizes(raw) ==
    IF ~raw.tuple THEN <<raw.value[1]>>
    ELSE SortedSizes(SetOf(raw.value))

\* self.test_val_sizes = ...; self.cleaning_options = ...;
\* self.selection_options = ...
Keys(self, a) ==
    LET s == [self EXCEPT !.test_val_sizes = TestValSizes(a.test_val_sizes)]
        c == CleaningOptions(s)
    IN  [s EXCEPT !.cleaning_options = c,
                  !.selection_options = SelectionOptions(s, c)]

InitKeys ==
    /\ pc = "keys"
    /\ run' = Keys(run, args)
    /\ pc' = "check_mode"
    /\ UNCHANGED <<args, fs, disk, out, ret>>

\* the regress / effect-size check, then spam_warnings()
InitCheckMode ==
    /\ pc = "check_mode"
    /\ IF /\ run.mode = "regress"
          /\ ("d" \in SetOf(run.feat_select) \/ "auc" \in SetOf(run.feat_select))
       THEN Raise("ValueError", "check_mode")
       ELSE pc' = "constructed" /\ UNCHANGED ret
    /\ UNCHANGED <<args, fs, disk, out, run>>

NextOpts ==
    \/ GetOptions
    \/ InitValidateDatapath
    \/ InitAssign
    \/ InitEnsureOutdir
    \/ InitSetupIo
    \/ InitKeys
    \/ InitCheckMode

SpecOpts == InitOpts /\ [][NextOpts]_vars

\* C4: a configuration error is raised before any directory is created:
\* whenever get_options / ProgramOptions(...) ends in an error, the
\* filesystem is as it was when the program started.
C4_ErrorBeforeDirs ==
    pc = "raised" => fs = args.fs0

\* C5: when exactly one of --spreadsheet and --df is given, that path is the
\* datapath ProgramOptions is built from, and startup does not end in a
\* ValueError for want of a source.
C5_OneSourceSuffices ==
    (pc # "get_options" /\ (args.spreadsheet = NONE) # (args.df = NONE)) =>
        /\ run.datapath = (IF args.df = NONE THEN args.spreadsheet ELSE args.df)
        /\ ~(pc = "raised" /\ ret.exc = "ValueError"
             /\ ret.at \in {"get_options", "validate_datapath"})

(***************************************************************************)
(* get_hash, and the keys of two ProgramOptions                            *)
(***************************************************************************)
\* Python's order of the field names (str comparison)
KeyOrder == <<"classifiers", "cleaning_options", "datapath", "drop_nan",
              "feat_clean", "feat_select", "mode", "n_feat", "regressors",
              "target">>

\* to_hash.pop(ignore) for each name in turn: a name that is not a key is
\* KeyError
RECURSIVE PopAll(_, _)
PopAll(d, ignores) ==
    IF Len(ignores) = 0 THEN [exc |-> NoExc, d |-> d]
    ELSE IF Head(ignores) \notin DOMAIN d THEN [exc |-> "KeyError", d |-> d]
    ELSE PopAll([k \in DOMAIN d \ {Head(ignores)} |-> d[k]], Tail(ignores))

\* tuple(sorted(to_hash.items())): the (key, value) pairs in key order
SortedItems(d) ==
    LET IsKey(k) == k \in DOMAIN d
        ks == SelectSeq(KeyOrder, IsKey)
    IN  [i \in 1..Len(ks) |-> <<ks[i], d[ks[i]]>>]

\* str(...) and md5(...).hexdigest(): functions of their argument
Str(x) == [str |-> x]
Md5(s) == [md5 |-> s]

\* the ignores argument: None, or a list of names
IgnoresNone == [none |-> TRUE, names |-> <<>>]
IgnoresList(names) == [none |-> FALSE, names |-> names]

\* get_hash(args, ignores): [exc, hsh] and the caller's mapping afterwards
GetHash(a, ignores) ==
    LET ign == IF ignores.none THEN <<>> ELSE ignores.names
        to_hash == a
        p == PopAll(to_hash, ign)
    IN  IF p.exc # NoExc THEN [exc |-> p.exc, hsh |-> NONE, args |-> a]
        ELSE [exc |-> NoExc, hsh |-> Md5(Str(SortedItems(p.d))), args |-> a]

\* the configs handed to get_hash: the fields of a CleaningOptions
Configs ==
    [datapath : {SpreadsheetPath, DfPath}, target : {"target", "other"},
     feat_clean : {<<"constant">>, <<"constant", "correlated">>},
     drop_nan : {"none", "rows"}]

IgnoreLists ==
    {<<>>, <<"target">>, <<"drop_nan", "target">>, <<"n_feat">>,
     <<"target", "n_feat">>, <<"target", "target">>}

InitHash ==
    /\ pc = "hash_call"
    /\ \E c \in Configs, d \in Configs,
          ig \in {IgnoresList(l) : l \in IgnoreLists} \cup {IgnoresNone} :
          args = [config |-> c, other |-> d, ignores |-> ig]
    /\ fs = <<>>
    /\ disk = <<>>
    /\ out = <<>>
    /\ ret = NONE
    /\ run = NONE

CallGetHash ==
    /\ pc = "hash_call"
    /\ LET h == GetHash(args.config, args.ignores)
           g == GetHash(args.other, args.ignores)
       IN  /\ ret' = [exc |-> h.exc, hsh |-> h.hsh, other |-> g.hsh]
           /\ run' = [config |-> h.args]
    /\ pc' = "hash_returned"
    /\ UNCHANGED <<args, fs, disk, out>>

NextHash == CallGetHash

SpecHash == InitHash /\ [][NextHash]_vars

\* the mapping without the ignored fields
Restricted(d, ignores) ==
    [k \in DOMAIN d \ SetOf(ignores.names) |-> d[k]]

\* C15: get_hash treats the ignored fields as absent: for every config and
\* every ignore list, also one naming a field the config does not have, it
\* returns the digest of the config without the ignored fields, two configs
\* that differ in ignored fields only get the same digest, and the caller's
\* mapping is as it was.
C15_IgnoredAbsent ==
    pc = "hash_returned" =>
        /\ ret.exc = NoExc
        /\ ret.hsh = Md5(Str(SortedItems(Restricted(args.config, args.ignores))))
        /\ Restricted(args.config, args.ignores)
             = Restricted(args.other, args.ignores) => ret.hsh = ret.other
        /\ run.config = args.config

\* Two calls of ProgramOptions(...) in one environment.  The multi-valued
\* arguments of each call:
KeySelNames == {"none", "pca"}
ClassifierLists == {<<"svm", "knn">>, <<"svm">>}
RegressorLists == {<<"linear">>, <<"linear", "knn", "linear">>}
CleanLists == {<<"constant">>, <<"correlated", "constant">>}

\* the single-valued arguments of the first call
Base ==
    [datapath |-> SpreadsheetPath, target |-> "target", drop_nan |-> "none",
     n_feat |-> 10, mode |-> "classify", htune_trials |-> 100,
     test_val_sizes |-> [tuple |-> FALSE, value |-> <<5>>],
     outdir |-> NONE, verbosity |-> "INFO"]

\* those of the second call: the same, or with one of them changed
Changes ==
    {"same", "datapath", "target", "drop_nan", "n_feat", "mode",
     "htune_trials", "test_val_sizes", "test_val_order", "outdir",
     "verbosity"}

Changed(a, what) ==
    CASE what = "datapath" -> [a EXCEPT !.datapath = DfPath]
      [] what = "target" -> [a EXCEPT !.target = "other"]
      [] what = "drop_nan" -> [a EXCEPT !.drop_nan = "rows"]
      [] what = "n_feat" -> [a EXCEPT !.n_feat = 20]
      [] what = "mode" -> [a EXCEPT !.mode = "regress"]
      [] what = "htune_trials" -> [a EXCEPT !.htune_trials = 50]
      [] what = "test_val_sizes" ->
            [a EXCEPT !.test_val_sizes = [tuple |-> TRUE, value |-> <<10, 5>>]]
      [] what = "test_val_order" ->
            [a EXCEPT !.test_val_sizes = [tuple |-> TRUE, value |-> <<5, 5>>]]
      [] what = "outdir" -> [a EXCEPT !.outdir = ReqRoot]
      [] what = "verbosity" -> [a EXCEPT !.verbosity = "DEBUG"]
      [] OTHER -> a

Lists ==
    [feat_select : RawLists(KeySelNames), classifiers : ClassifierLists,
     regressors : RegressorLists, feat_clean : CleanLists]

\* the arguments of one call
CallArgs(a, l) ==
    [datapath |-> a.datapath, target |-> a.target, drop_nan |-> a.drop_nan,
     n_feat |-> a.n_feat, mode |-> a.mode, htune_trials |-> a.htune_trials,
     test_val_sizes |-> a.test_val_sizes, outdir |-> a.outdir,
     verbosity |-> a.verbosity, feat_select |-> l.feat_select,
     classifiers |-> l.classifiers, regressors |-> l.regressors,
     feat_clean |-> l.feat_clean]

\* ProgramOptions(...) for a data file that exists: [exc, self, fs]
Construct(a, f) ==
    LET v == ValidateDatapath(a.datapath,
                              [p \in {SpreadsheetPath, DfPath} |-> "file"])
        s == Assign([Self0 EXCEPT !.datapath = v.path], a)
        o == EnsureOutdir(s.datapath, a.outdir, f)
        io == SetupIo(o.outdir, o.fs, "ok")
    IN  IF o.exc # NoExc THEN [exc |-> o.exc, self |-> s, fs |-> o.fs]
        ELSE [exc |-> NoExc,
              self |-> Keys([s EXCEPT !.outdir = o.outdir,
                                      !.program_dirs = io.dirs], a),
              fs |-> io.fs]

InitKeyPair ==
    /\ pc = "options_call"
    /\ \E l1 \in Lists, l2 \in Lists, what \in Changes :
          args = [first |-> CallArgs(Base, l1),
                  second |-> CallArgs(Changed(Base, what), l2)]
    /\ fs = FsOf([r \in Roots |-> "absent"], NONE)
    /\ disk = <<>>
    /\ out = <<>>
    /\ ret = [exc |-> NoExc]
    /\ run = [first |-> NONE, second |-> NONE]

\* the two calls, one after the other
ConstructFirst ==
    /\ pc = "options_call"
    /\ LET r == Construct(args.first, fs)
       IN  /\ run' = [run EXCEPT !.first = r.self]
           /\ fs' = r.fs
    /\ pc' = "first_constructed"
    /\ UNCHANGED <<args, disk, out, ret>>

ConstructSecond ==
    /\ pc = "first_constructed"
    /\ LET r == Construct(args.second, fs)
       IN  /\ run' = [run EXCEPT !.second = r.self]
           /\ fs' = r.fs
    /\ pc' = "both_constructed"
    /\ UNCHANGED <<args, disk, out, ret>>

\* get_hash over the fields of the keys of both
HashKeys ==
    /\ pc = "both_constructed"
    /\ LET h(self) ==
               [cleaning |-> GetHash(self.cleaning_options, IgnoresNone),
                selection |-> GetHash(self.selection_options, IgnoresNone)]
       IN  ret' = [exc |-> NoExc, first |-> h(run.first),
                   second |-> h(run.second)]
    /\ pc' = "hashed"
    /\ UNCHANGED <<args, fs, disk, out, run>>

NextKeys == ConstructFirst \/ ConstructSecond \/ HashKeys

SpecKeys == InitKeyPair /\ [][NextKeys]_vars

\* the two calls were given the same values: equal single values, and the
\* same set of values for every multi-valued option
SameValues(a, b) ==
    /\ \A k \in {"datapath", "target", "drop_nan", "n_feat", "mode",
                 "htune_trials", "outdir", "verbosity"} : a[k] = b[k]
    /\ \A k \in {"feat_select", "classifiers", "regressors", "feat_clean"} :
          SetOf(a[k]) = SetOf(b[k])
    /\ SetOf(a.test_val_sizes.value) = SetOf(b.test_val_sizes.value)

\* C14: two ProgramOptions built from the same values, the multi-valued
\* options in any order and with any repeats, have equal cleaning_options
\* and equal selection_options, and get_hash over the fields of these gives
\* the same digests.
C14_OrderIndependent ==
    /\ (pc \in {"both_constructed", "hashed"}
        /\ SameValues(args.first, args.second))
          => /\ run.first.cleaning_options = run.second.cleaning_options
             /\ run.first.selection_options = run.second.selection_options
             /\ run.first.test_val_sizes = run.second.test_val_sizes
    /\ (pc = "hashed" /\ SameValues(args.first, args.second))
          => /\ ret.first.cleaning.exc = NoExc
             /\ ret.first.selection.exc = NoExc
             /\ ret.first.cleaning.hsh = ret.second.cleaning.hsh
             /\ ret.first.selection.hsh = ret.second.selection.hsh

C14_Witness ==
    /\ pc = "hashed"
    /\ SameValues(args.first, args.second)
    /\ args.first.feat_select = <<"pca", "none">>
    /\ args.second.feat_select = <<"none", "pca">>
    /\ args.first.regressors = <<"linear", "knn", "linear">>
    /\ args.second.regressors = <<"linear", "knn", "linear">>
    /\ args.second.test_val_sizes.value = <<5, 5>>
    /\ ret.first.selection.hsh = ret.second.selection.hsh

\* C16: the selection_options of two ProgramOptions are equal exactly when
\* their cleaning_options and their mode, classifiers, regressors, selection
\* methods and n_feat are equal: different cleaning keys give different
\* selection keys, and calls that differ in tuning, validation, output root
\* or verbosity only have the same cleaning and selection keys.
C16_KeyDependency ==
    pc \in {"both_constructed", "hashed"} =>
        LET a == run.first
            b == run.second
        IN  /\ (a.selection_options = b.selection_options)
                  <=> /\ a.cleaning_options = b.cleaning_options
                      /\ a.mode = b.mode
                      /\ a.classifiers = b.classifiers
                      /\ a.regressors = b.regressors
                      /\ a.feat_select = b.feat_select
                      /\ a.n_feat = b.n_feat
            /\ a.cleaning_options # b.cleaning_options
                  => a.selection_options # b.selection_options
            /\ (\A k \in DOMAIN args.first \ {"htune_trials", "test_val_sizes",
                                              "outdir", "verbosity"} :
                    args.first[k] = args.second[k])
                  => /\ a.cleaning_options = b.cleaning_options
                     /\ a.selection_options = b.selection_options

C16_Witness ==
    /\ pc = "both_constructed"
    /\ run.first.feat_clean # run.second.feat_clean
    /\ \A k \in {"mode", "classifiers", "regressors", "feat_select", "n_feat"} :
          run.first[k] = run.second[k]
    /\ run.first.selection_options # run.second.selection_options

(***************************************************************************)
(* Persistence: try_save and save_interim_result of df-analyze.py, and     *)
(* try_save of saving.py                                                   *)
(***************************************************************************)
FileTypes == {"interim", "final", "feature", "params", "univariate"}

\* df.to_markdown(tablefmt="simple", floatfmt="0.5f"): the text rendering
ToMarkdown(df) == [kind |-> "table", df |-> df]

\* the lines printed; fmt is the suffix of the path named in the line
Saved(desc, path, fmt) ==
    [kind |-> "saved", desc |-> desc, path |-> path, fmt |-> fmt]
Traceback(path, fmt) == [kind |-> "traceback", path |-> path, fmt |-> fmt]
Failed(path, fmt) == [kind |-> "failed", path |-> path, fmt |-> fmt]

\* the file at `path` now holds `content`
Put(d, path, content) ==
    [q \in DOMAIN d \cup {path} |-> IF q = path THEN content ELSE d[q]]

\* one try / except block around df.to_json(path) or df.to_csv(path); in the
\* handler the value of df.to_markdown(...) is computed and dropped
WriteOne(df, path, fmt, fails, desc, d, o) ==
    IF fails
    THEN LET rendered == ToMarkdown(df)
         IN  [disk |-> d, out |-> o \o <<Traceback(path, fmt), Failed(path, fmt)>>]
    ELSE [disk |-> Put(d, path, [fmt |-> fmt, df |-> df]),
          out |-> Append(o, Saved(desc, path, fmt))]

\* the two blocks, one after the other
WriteBoth(df, json, csv, jf, cf, desc, d, o) ==
    LET a == WriteOne(df, json, "json", jf, desc, d, o)
        b == WriteOne(df, csv, "csv", cf, desc, a.disk, a.out)
    IN  [exc |-> NoExc, disk |-> b.disk, out |-> b.out]

\* try_save(df, outdir, file_info) of df-analyze.py
TrySave(df, outdir, file_info, jf, cf, d, o) ==
    IF outdir = NONE
    THEN [exc |-> "TypeError", disk |-> d, out |-> o]
    ELSE WriteBoth(df, outdir \o "/" \o file_info \o ".json",
                   outdir \o "/" \o file_info \o ".csv",
                   jf, cf, "interim result", d, o)

\* ctime().replace(":", "-").replace("  ", " ").replace(" ", "_")
Timestamp(now) == "T" \o ToString(now)

\* f"results__{estimator}{'_step-up' if step else ''}__{timestamp}"
InterimFileInfo(estimator, feature_selection, now) ==
    "results__" \o estimator
        \o (IF feature_selection = "step-up" THEN "_step-up" ELSE "")
        \o "__" \o Timestamp(now)

\* save_interim_result(args, result)
SaveInterimResult(estimator, feature_selection, outdir, result, now, jf, cf, d, o) ==
    IF outdir = NONE
    THEN [exc |-> NoExc, disk |-> d, out |-> o]
    ELSE TrySave(result, outdir,
                 InterimFileInfo(estimator, feature_selection, now),
                 jf, cf, d, o)

\* program_dirs.<name>: a dataclass has the attributes it declares
Attr(dirs, name) ==
    IF name \in DOMAIN dirs
    THEN [exc |-> NoExc, value |-> dirs[name]]
    ELSE [exc |-> "AttributeError", value |-> NONE]

\* "-".join(cleaning)
RECURSIVE JoinDash(_)
JoinDash(cleaning) ==
    IF Len(cleaning) = 0 THEN ""
    ELSE IF Len(cleaning) = 1 THEN cleaning[1]
    ELSE cleaning[1] \o "-" \o JoinDash(Tail(cleaning))

\* the directory name without the cleaning steps
SelectionDirName_NoCleaning(selection, cleaning) ==
    IF selection = NONE \/ selection = "none"
    THEN "no-selection" ELSE selection \o "-selection"

\* f"{selection}{clean}" of the Feature and Params branches
SelectionDirName(selection, cleaning) ==
    (IF selection = NONE \/ selection = "none"
     THEN "no-selection" ELSE selection \o "-selection")
    \o (IF Len(cleaning) > 0 THEN "_cleaning=" \o JoinDash(cleaning) ELSE "")

\* the if / elif chain: [exc, outdir, desc]
TargetDir(program_dirs, file_type, selection, cleaning) ==
    LET at(a, suffix, desc) ==
            IF a.exc # NoExc THEN [exc |-> a.exc, outdir |-> NONE, desc |-> desc]
            ELSE IF a.value = NONE
                 THEN [exc |-> "TypeError", outdir |-> NONE, desc |-> desc]
                 ELSE [exc |-> NoExc, outdir |-> a.value \o suffix, desc |-> desc]
    IN  CASE file_type = "interim" ->
                LET a == Attr(program_dirs, "interim_results")
                IN  [exc |-> a.exc, outdir |-> a.value, desc |-> "interim results"]
          [] file_type = "final" ->
                LET a == Attr(program_dirs, "final_results")
                IN  [exc |-> a.exc, outdir |-> a.value,
                     desc |-> "final results for all options"]
          [] file_type \in {"feature", "params"} ->
                at(Attr(program_dirs, "feature_selection"),
                   "/" \o SelectionDirName(selection, cleaning),
                   "selected/cleaned features")
          [] OTHER ->
                [exc |-> "ValueError", outdir |-> NONE, desc |-> NONE]

\* try_save(program_dirs, df, file_stem, file_type, selection, cleaning) of
\* saving.py
SavingTrySave(program_dirs, df, file_stem, file_type, selection, cleaning, jf, cf, d, o) ==
    LET t == TargetDir(program_dirs, file_type, selection, cleaning)
    IN  IF t.exc # NoExc THEN [exc |-> t.exc, disk |-> d, out |-> o]
        ELSE IF t.outdir = NONE
             THEN [exc |-> "TypeError", disk |-> d, out |-> o]
             ELSE WriteBoth(df, t.outdir \o "/json/" \o file_stem \o ".json",
                            t.outdir \o "/csv/" \o file_stem \o ".csv",
                            jf, cf, t.desc, d, o)

\* result tables: column names and rows
Tables ==
    {[cols |-> <<"model", "acc">>, rows |-> <<[model |-> "knn", acc |-> 1]>>],
     [cols |-> <<"model", "mae">>,
      rows |-> <<[model |-> "svm", mae |-> 2], [model |-> "knn", mae |-> 1]>>]}

InitSave ==
    /\ pc = "save_call"
    /\ \E df \in Tables, od \in {NONE, ReqRoot}, root \in {NONE, ReqRoot},
          ft \in FileTypes \cup {"invalid"}, sel \in {NONE, "none", "pca"},
          cl \in {<<>>, <<"constant">>, <<"constant", "correlated">>},
          est \in ClassifierNames, fsel \in {"none", "step-up"},
          jf \in BOOLEAN, cf \in BOOLEAN :
          args = [df |-> df, outdir |-> od,
                  program_dirs |-> IF root = NONE THEN ProgramDirsDefault
                                   ELSE ProgramDirsAt(root, FALSE),
                  file_stem |-> "stem", file_type |-> ft, selection |-> sel,
                  cleaning |-> cl, estimator |-> est,
                  feature_selection |-> fsel,
                  json_fails |-> jf, csv_fails |-> cf]
    /\ fs = FsOf([r \in Roots |-> IF r = ReqRoot THEN "dir_rw" ELSE "absent"], NONE)
    /\ disk = <<>>
    /\ out = <<>>
    /\ ret = [exc |-> NoExc]
    /\ run = NONE

Return(label, r) ==
    /\ pc' = label
    /\ ret' = [exc |-> r.exc]
    /\ disk' = r.disk
    /\ out' = r.out
    /\ UNCHANGED <<args, fs, run>>

CallTrySave ==
    /\ pc = "save_call"
    /\ Return("try_save_returned",
              TrySave(args.df, args.outdir, args.file_stem,
                      args.json_fails, args.csv_fails, disk, out))

CallSaveInterimResult ==
    /\ pc = "save_call"
    /\ Return("save_interim_result_returned",
              SaveInterimResult(args.estimator, args.feature_selection,
                                args.outdir, args.df, 0,
                                args.json_fails, args.csv_fails, disk, out))

CallSavingTrySave ==
    /\ pc = "save_call"
    /\ Return("saving_try_save_returned",
              SavingTrySave(args.program_dirs, args.df, args.file_stem,
                            args.file_type, args.selection, args.cleaning,
                            args.json_fails, args.csv_fails, disk, out))

NextSave == CallTrySave \/ CallSaveInterimResult \/ CallSavingTrySave

SpecSave == InitSave /\ [][NextSave]_vars

(***************************************************************************)
(* __main__ and run_analysis of df-analyze.py                              *)
(***************************************************************************)
MaxClock == 2

RunSelNames == {"none", "pca", "step-up"}
RegressorNames == {"knn", "linear"}

\* str.lower() of the column names the analysis may give its tables
Lower(c) == IF c = "MAE" THEN "mae" ELSE c
\* "mae" in col, "sd" in col
HasMae(c) == c \in {"mae", "mae_sd"}
HasSd(c) == c \in {"mae_sd"}

ColChoices == {<<"model", "selection", "acc">>,
               <<"model", "selection", "mae_sd", "mae">>,
               <<"model", "selection", "MAE">>}

\* listify(item) for a tuple and for any other object
ListifyTuple(t) == [i \in 1..Len(t) |-> t[i]]
ListifyOne(item) == <<item>>

\* estimators = options.classifiers if options.mode == "classify" else ...
EstimatorsOf(options) ==
    IF options.mode = "classify" THEN options.classifiers
    ELSE options.regressors

\* the grid with feature_selection as the slowest key
GridOf_SelectionMajor(opts, ests, sels) ==
    LET no == Len(opts)
        ne == Len(ests)
    IN  [k \in 1..(ne * Len(sels) * no) |->
            [options |-> opts[((k - 1) % no) + 1],
             estimator |-> ests[(((k - 1) \div no) % ne) + 1],
             feature_selection |-> sels[((k - 1) \div (ne * no)) + 1]]]

\* [LoopArgs(**params) for params in ParameterGrid(arg_options)]: the keys in
\* sorted order (estimator, feature_selection, options), the last one varying
\* fastest
GridOf(opts, ests, sels) ==
    LET no == Len(opts)
        ns == Len(sels)
    IN  [k \in 1..(Len(ests) * ns * no) |->
            [options |-> opts[((k - 1) % no) + 1],
             estimator |-> ests[((k - 1) \div (ns * no)) + 1],
             feature_selection |-> sels[(((k - 1) \div no) % ns) + 1]]]

\* full_estimator_analysis(**arg.__dict__): the table of one grid point
ScoreOf(pattern, k, n) ==
    CASE pattern = "asc"  -> k
      [] pattern = "desc" -> n + 1 - k
      [] OTHER            -> (k + 1) \div 2

Analysis(arg, cols, score) ==
    [cols |-> cols,
     rows |-> <<[c \in SetOf(cols) |->
                    CASE c = "model" -> arg.estimator
                      [] c = "selection" -> arg.feature_selection
                      [] OTHER -> score]>>]

\* the table of the last grid point alone
Concat_Last(results) ==
    IF Len(results) = 0 THEN [cols |-> <<>>, rows |-> <<>>]
    ELSE results[Len(results)]

\* pd.concat(results, axis=0, ignore_index=True)
RECURSIVE Concat(_)
Concat(results) ==
    IF Len(results) = 0 THEN [cols |-> <<>>, rows |-> <<>>]
    ELSE IF Len(results) = 1 THEN results[1]
    ELSE LET rest == Concat(Tail(results))
         IN  [cols |-> results[1].cols, rows |-> results[1].rows \o rest.rows]

\* the column sort_df / print_sorted pick: the first lower-cased name with
\* "mae" and without "sd", or None
RECURSIVE SortCol(_)
SortCol(cols) ==
    IF Len(cols) = 0 THEN NONE
    ELSE LET c == Lower(cols[1])
         IN  IF HasMae(c) /\ ~HasSd(c) THEN c ELSE SortCol(Tail(cols))

\* the orders of the row indices idx that ascend in column col
RECURSIVE Ascending(_, _, _)
Ascending(rows, idx, col) ==
    IF idx = {} THEN {<<>>}
    ELSE LET least == {i \in idx : \A j \in idx : rows[i][col] <= rows[j][col]}
         IN  UNION {{<<i>> \o t : t \in Ascending(rows, idx \ {i}, col)} :
                    i \in least}

\* df.sort_values(by=col, ascending=True): the results it may give (the order
\* of equal keys is not fixed), or KeyError when there is no such column
SortValues(df, col) ==
    IF col \notin SetOf(df.cols)
    THEN {[exc |-> "KeyError", df |-> df]}
    ELSE {[exc |-> NoExc,
           df |-> [cols |-> df.cols,
                   rows |-> [k \in 1..Len(p) |-> df.rows[p[k]]]]] :
          p \in Ascending(df.rows, DOMAIN df.rows, col)}

\* sort_df(df)
SortDf(df) ==
    LET sort_col == SortCol(df.cols)
    IN  IF sort_col = NONE THEN {[exc |-> NoExc, df |-> df]}
        ELSE SortValues(df, sort_col)

\* print_sorted(df): what it prints
PrintSorted(df) ==
    LET sort_col == SortCol(df.cols)
    IN  IF sort_col = NONE THEN {[exc |-> NoExc, printed |-> ToMarkdown(df)]}
        ELSE {[exc |-> r.exc, printed |-> ToMarkdown(r.df)] :
              r \in SortValues(df, sort_col)}

\* str(estimators) with blanks, parentheses and quotes removed and "," -> "_"
RECURSIVE ModelsStr(_)
ModelsStr(estimators) ==
    IF Len(estimators) = 1 THEN estimators[1] \o "_"
    ELSE IF Len(estimators) = 2 THEN estimators[1] \o "_" \o estimators[2]
    ELSE estimators[1] \o "_" \o ModelsStr(Tail(estimators))

\* f"results__{models}{'__step-up' if is_stepup else ''}__{timestamp}"
FinalFileInfo(estimators, is_stepup, now) ==
    "results__" \o ModelsStr(estimators)
        \o (IF is_stepup THEN "__step-up" ELSE "") \o "__" \o Timestamp(now)

NonEmptySorted(names) == {SortedTuple(S) : S \in (SUBSET names) \ {{}}}

Run0 ==
    [options |-> NONE, estimators |-> <<>>, is_stepup |-> FALSE,
     loop_args |-> <<>>, results_dir |-> NONE, i |-> 1, results |-> <<>>,
     calls |-> <<>>, now |-> 0]

\* The options are those ProgramOptions builds: sorted tuples without
\* repeats.  The output directory is None, missing or a writable directory.
InitRun ==
    /\ pc = "main"
    /\ \E mode \in {"classify", "regress"},
          cls \in NonEmptySorted(ClassifierNames),
          reg \in NonEmptySorted(RegressorNames),
          fsel \in NonEmptySorted(RunSelNames),
          od \in {NONE, ReqRoot}, ok \in {"absent", "dir_rw"},
          jf \in BOOLEAN, cf \in BOOLEAN, cols \in ColChoices,
          sc \in {"asc", "desc", "tied"} :
          LET k == [r \in Roots |-> IF r = ReqRoot THEN ok ELSE "absent"]
          IN  /\ od = NONE => ok = "absent"
              /\ args = [options |-> [mode |-> mode, classifiers |-> cls,
                                      regressors |-> reg, feat_select |-> fsel,
                                      outdir |-> od],
                         outdir |-> od, json_fails |-> jf, csv_fails |-> cf,
                         cols |-> cols, scores |-> sc, fs0 |-> FsOf(k, NONE)]
              /\ fs = FsOf(k, NONE)
    /\ disk = <<>>
    /\ out = <<>>
    /\ ret = [exc |-> NoExc, at |-> NONE]
    /\ run = Run0

\* __main__: options -> loop_args
Main ==
    /\ pc = "main"
    /\ LET options == args.options
           estimators == EstimatorsOf(options)
           feature_selection == options.feat_select
       IN  run' = [run EXCEPT
                     !.options = options,
                     !.estimators = estimators,
                     !.is_stepup = "step-up" \in SetOf(ListifyTuple(feature_selection)),
                     !.loop_args = GridOf(ListifyOne(options),
                                          ListifyTuple(estimators),
                                          ListifyTuple(feature_selection))]
    /\ pc' = "run_analysis"
    /\ UNCHANGED <<args, fs, disk, out, ret>>

\* run_analysis up to the loop: the results directory
RunAnalysisStart ==
    /\ pc = "run_analysis"
    /\ LET results_dir == run.loop_args[1].options.outdir
       IN  IF results_dir = NONE
           THEN Raise("AttributeError", "run_analysis") /\ UNCHANGED <<run, fs>>
           ELSE /\ fs' = IF fs[results_dir] = "absent"
                         THEN [fs EXCEPT ![results_dir] = "dir_rw"] ELSE fs
                /\ run' = [run EXCEPT !.results_dir = results_dir,
                                      !.results = <<>>]
                /\ pc' = "loop"
                /\ UNCHANGED ret
    /\ UNCHANGED <<args, disk, out>>

\* result = full_estimator_analysis(**arg.__dict__); results.append(result)
Analyze ==
    /\ pc = "loop"
    /\ run.i <= Len(run.loop_args)
    /\ LET arg == run.loop_args[run.i]
           result == Analysis(arg, args.cols,
                              ScoreOf(args.scores, run.i, Len(run.loop_args)))
       IN  run' = [run EXCEPT
                     !.calls = Append(@, <<arg.estimator, arg.feature_selection>>),
                     !.results = Append(@, result)]
    /\ pc' = "save"
    /\ UNCHANGED <<args, fs, disk, out, ret>>

\* save_interim_result(arg, result); pbar.update()
SaveInterim ==
    /\ pc = "save"
    /\ \E tick \in {0, 1} :
          /\ run.now + tick <= MaxClock
          /\ LET arg == run.loop_args[run.i]
                 r == SaveInterimResult(arg.estimator, arg.feature_selection,
                                        arg.options.outdir,
                                        run.results[run.i], run.now + tick,
                                        args.json_fails, args.csv_fails,
                                        disk, out)
             IN  IF r.exc # NoExc
                 THEN Raise(r.exc, "save_interim_result")
                      /\ UNCHANGED <<run, disk, out>>
                 ELSE /\ disk' = r.disk
                      /\ out' = r.out
                      /\ run' = [run EXCEPT !.i = @ + 1, !.now = @ + tick]
                      /\ pc' = "loop"
                      /\ UNCHANGED ret
    /\ UNCHANGED <<args, fs>>

\* after the loop: concat, sort_df, try_save, print_sorted, return df
Finish ==
    /\ pc = "loop"
    /\ run.i > Len(run.loop_args)
    /\ \E s \in SortDf(Concat(run.results)), tick \in {0, 1} :
          /\ run.now + tick <= MaxClock
          /\ IF s.exc # NoExc
             THEN Raise(s.exc, "sort_df") /\ UNCHANGED <<run, disk, out>>
             ELSE LET w == TrySave(s.df, run.results_dir,
                                   FinalFileInfo(run.estimators, run.is_stepup,
                                                 run.now + tick),
                                   args.json_fails, args.csv_fails, disk, out)
                  IN  \E q \in PrintSorted(s.df) :
                         /\ disk' = w.disk
                         /\ out' = Append(w.out, q.printed)
                         /\ run' = [run EXCEPT !.now = @ + tick]
                         /\ pc' = "done"
                         /\ ret' = [exc |-> NoExc, at |-> NONE, df |-> s.df]
    /\ UNCHANGED <<args, fs>>

\* the operator stops the process while the loop is running
Interrupt ==
    /\ pc \in {"loop", "save"}
    /\ run.i <= Len(run.loop_args)
    /\ Raise("KeyboardInterrupt", pc)
    /\ UNCHANGED <<args, fs, disk, out, run>>

NextRun ==
    \/ Main
    \/ RunAnalysisStart
    \/ Analyze
    \/ SaveInterim
    \/ Finish
    \/ Interrupt

SpecRun == InitRun /\ [][NextRun]_vars

\* direct calls of the persistence functions together with whole runs
SpecPersist == (InitSave \/ InitRun) /\ [][NextSave \/ NextRun]_vars

(***************************************************************************)
(* Claims on persistence and on the run loop                               *)
(***************************************************************************)
DirectReturn ==
    pc \in {"try_save_returned", "save_interim_result_returned",
            "saving_try_save_returned"}

\* a write of the format was attempted: it was reported saved or failed
Attempted(fmt) ==
    \E i \in DOMAIN out : out[i].kind \in {"saved", "failed"} /\ out[i].fmt = fmt

OnDisk(fmt, df) ==
    \E q \in DOMAIN disk : disk[q] = [fmt |-> fmt, df |-> df]

\* every grid point has been through the loop
LoopOver ==
    /\ pc \in {"loop", "done", "raised"}
    /\ run.i > Len(run.loop_args)

\* C6: in in-memory mode (no output root) persistence is a silent no-op:
\* saving.try_save and save_interim_result write nothing, print nothing and
\* raise nothing, and run_analysis raises nothing, writes nothing, calls the
\* analysis for every grid point and returns the aggregate table.
C6_InMemoryNoOp ==
    /\ (/\ pc = "saving_try_save_returned"
        /\ args.program_dirs.root = NONE
        /\ args.file_type \in FileTypes)
          => (ret.exc = NoExc /\ disk = <<>> /\ out = <<>>)
    /\ (pc = "save_interim_result_returned" /\ args.outdir = NONE)
          => (ret.exc = NoExc /\ disk = <<>> /\ out = <<>>)
    /\ (pc \in {"loop", "save", "raised", "done"} /\ args.outdir = NONE)
          => /\ disk = <<>>
             /\ pc = "raised" => ret.exc = "KeyboardInterrupt"
             /\ pc = "done" => Len(run.calls) = Len(run.loop_args)

\* C7: the two writes of try_save are isolated: whatever the outcome of each,
\* both are attempted, nothing is raised, the format that was written is on
\* disk, and in run_analysis a failed write does not end the loop.
C7_WritesIsolated ==
    /\ (\/ pc = "try_save_returned" /\ args.outdir # NONE
        \/ /\ pc = "saving_try_save_returned"
           /\ args.program_dirs.root # NONE
           /\ args.file_type \in FileTypes)
          => /\ ret.exc = NoExc
             /\ Attempted("json") /\ Attempted("csv")
             /\ ~args.json_fails => OnDisk("json", args.df)
             /\ ~args.csv_fails => OnDisk("csv", args.df)
    /\ pc = "raised" => ret.at # "save_interim_result"

\* C8: whenever a write fails in try_save, the text rendering of the artifact
\* is printed to standard output besides the failure diagnostic.
C8_FallbackRendering ==
    (/\ DirectReturn
     /\ \E i \in DOMAIN out : out[i].kind = "failed")
        => \E i \in DOMAIN out : out[i] = ToMarkdown(args.df)

\* C9: saving.try_save raises the "Invalid FileType" ValueError exactly when
\* file_type is outside {Interim, Final, Feature, Params, Univariate}: no
\* enumerated type takes the "Invalid FileType" path.
C9_InvalidFileTypeOnly ==
    pc = "saving_try_save_returned" =>
        ((ret.exc = "ValueError") <=> (args.file_type \notin FileTypes))

\* C10: run_analysis calls the analysis exactly once per point of estimators
\* x feature-selection methods x option variants, |E| * |S| * |V| calls in
\* all, in the one order that ascends by estimator and then by selection
\* method; while the loop runs the calls made so far ascend in that order.
Before(a, b) ==
    \/ Rank(a[1]) < Rank(b[1])
    \/ a[1] = b[1] /\ Rank(a[2]) < Rank(b[2])

C10_GridOnce ==
    pc \in {"loop", "save", "done", "raised"} =>
        LET E == SetOf(EstimatorsOf(args.options))
            S == SetOf(args.options.feat_select)
        IN  /\ \A i, j \in DOMAIN run.calls :
                  i < j => Before(run.calls[i], run.calls[j])
            /\ SetOf(run.calls) \subseteq E \X S
            /\ LoopOver =>
                  /\ Len(run.calls) = Cardinality(E) * Cardinality(S) * 1
                  /\ SetOf(run.calls) = E \X S

C10_Witness ==
    /\ pc = "done"
    /\ args.options.mode = "classify"
    /\ args.options.classifiers = <<"knn", "svm">>
    /\ args.options.feat_select = <<"none", "step-up">>
    /\ run.calls = << <<"knn", "none">>, <<"knn", "step-up">>,
                      <<"svm", "none">>, <<"svm", "step-up">> >>

(***************************************************************************)
(* Claims on the artifacts of a run                                        *)
(***************************************************************************)
InRun == pc \in {"loop", "save", "done", "raised"}

\* the paths the final artifact of this run may have
FinalPaths ==
    {run.results_dir \o "/"
        \o FinalFileInfo(run.estimators, run.is_stepup, t) \o ext :
     t \in 0..MaxClock, ext \in {".json", ".csv"}}

\* the files of one format on disk that are not the final artifact
InterimFiles(fmt) ==
    {q \in DOMAIN disk : disk[q].fmt = fmt /\ q \notin FinalPaths}

\* the positions in the output that report a write (done or failed) of the
\* format, and those among them that name the final artifact
Writes(fmt) ==
    {i \in DOMAIN out : /\ out[i].kind \in {"saved", "failed"}
                        /\ out[i].fmt = fmt}

FinalWrites(fmt) == {i \in Writes(fmt) : out[i].path \in FinalPaths}

\* the rows of all tables the analysis has returned
AllRows == UNION {SetOf(run.results[k].rows) : k \in DOMAIN run.results}

\* the column a case-insensitive search for "mae" without "sd" finds, under
\* the name it has in the table
MaeColumns(cols) ==
    {k \in DOMAIN cols : HasMae(Lower(cols[k])) /\ ~HasSd(Lower(cols[k]))}

\* C11: when the run is interrupted after k grid points have been analysed
\* and saved, and no write fails, exactly k interim artifacts are on disk and
\* no final one; whenever the next analysis is about to start, a write of
\* every result so far has been attempted.
C11_InterimSurvives ==
    /\ (/\ pc = "raised" /\ ret.exc = "KeyboardInterrupt"
        /\ ~args.json_fails /\ ~args.csv_fails)
          => /\ Cardinality(InterimFiles("json")) = run.i - 1
             /\ Cardinality(InterimFiles("csv")) = run.i - 1
             /\ DOMAIN disk \cap FinalPaths = {}
    /\ (pc = "loop" /\ run.i <= Len(run.loop_args))
          => /\ Cardinality(Writes("json")) = Len(run.results)
             /\ Cardinality(Writes("csv")) = Len(run.results)
             /\ FinalWrites("json") = {} /\ FinalWrites("csv") = {}

\* C12: no two interim artifacts of a run are written to the same file name,
\* also for two grid points of the same estimator saved in the same clock
\* second.
C12_NoCollision ==
    InRun =>
        \A i, j \in DOMAIN out :
            (/\ i < j
             /\ out[i].kind \in {"saved", "failed"}
             /\ out[j].kind \in {"saved", "failed"}
             /\ out[i].fmt = out[j].fmt)
                => out[i].path # out[j].path

\* C13: sort_df finds the "mae" column whatever its case: it never raises,
\* with such a column the table it returns holds the same rows in ascending
\* order of that column, and without one the table is returned as it is.
C13_SortAnyCase ==
    /\ pc = "raised" => ret.at # "sort_df"
    /\ (pc = "done" /\ InRun) =>
          LET df == Concat(run.results)
              ks == MaeColumns(df.cols)
          IN  IF ks = {} THEN ret.df = df
              ELSE LET col == df.cols[CHOOSE k \in ks : \A m \in ks : k <= m]
                   IN  /\ SetOf(ret.df.rows) = SetOf(df.rows)
                       /\ Len(ret.df.rows) = Len(df.rows)
                       /\ \A a, b \in DOMAIN ret.df.rows :
                             a < b => ret.df.rows[a][col] <= ret.df.rows[b][col]

\* C18: the final artifact is written at most once in a run, and only after
\* the analysis was called and an interim save attempted for every grid
\* point; the table it holds has exactly the rows of all per-point tables,
\* in grid order when the table has no sort column.
C18_FinalOnce ==
    InRun =>
        LET FP == FinalPaths
            final(fmt) == {i \in Writes(fmt) : out[i].path \in FP}
            rows == AllRows
        IN  /\ \A fmt \in {"json", "csv"} :
                  LET F == final(fmt)
                      I == Writes(fmt) \ F
                  IN  /\ Cardinality(F) <= 1
                      /\ F # {} =>
                            /\ pc = "done"
                            /\ Len(run.calls) = Len(run.loop_args)
                            /\ Cardinality(I) = Len(run.loop_args)
                            /\ \A i \in I, j \in F : i < j
            /\ \A q \in DOMAIN disk \cap FP :
                  LET df == disk[q].df
                  IN  /\ final(disk[q].fmt) # {}
                      /\ SetOf(df.rows) = rows
                      /\ Len(df.rows) = Cardinality(rows)
                      /\ MaeColumns(df.cols) = {} =>
                            /\ Len(df.rows) = Len(run.loop_args)
                            /\ \A k \in DOMAIN run.loop_args :
                                  /\ df.rows[k].model
                                        = run.loop_args[k].estimator
                                  /\ df.rows[k].selection
                                        = run.loop_args[k].feature_selection

C18_Witness ==
    /\ pc = "done"
    /\ Len(run.loop_args) = 4
    /\ args.cols = <<"model", "selection", "acc">>
    /\ \E q \in DOMAIN disk \cap FinalPaths :
          disk[q].fmt = "json" /\ Len(disk[q].df.rows) = 4
    /\ Cardinality(InterimFiles("json")) = 4

(***************************************************************************)
(* Two Feature / Params artifacts saved with try_save of saving.py         *)
(***************************************************************************)
SelectionArgs == {NONE, "none", "pca", "step-up"}

\* the cleaning argument: a tuple of cleaning steps, possibly empty
CleaningArgs == {<<>>} \cup RawLists({"constant", "correlated"})

\* The directories handed to try_save: a ProgramDirs as new builds it, and
\* one that also carries the feature_selection attribute try_save reads.
DirsArgs ==
    LET dirs == ProgramDirsAt(ReqRoot, FALSE)
    IN  {dirs,
         [k \in DOMAIN dirs \cup {"feature_selection"} |->
             IF k = "feature_selection" THEN dirs.selection ELSE dirs[k]]}

InitFeature ==
    /\ pc = "feature_call"
    /\ \E dirs \in DirsArgs, ft1 \in {"feature", "params"},
          ft2 \in {"feature", "params"}, s1 \in SelectionArgs,
          s2 \in SelectionArgs, c1 \in CleaningArgs, c2 \in CleaningArgs,
          jf \in BOOLEAN, cf \in BOOLEAN :
          args = [program_dirs |-> dirs, file_stem |-> "stem",
                  first |-> [df |-> [cols |-> <<"feature">>,
                                     rows |-> <<[feature |-> 1]>>],
                             file_type |-> ft1, selection |-> s1,
                             cleaning |-> c1],
                  second |-> [df |-> [cols |-> <<"feature">>,
                                      rows |-> <<[feature |-> 2]>>],
                              file_type |-> ft2, selection |-> s2,
                              cleaning |-> c2],
                  json_fails |-> jf, csv_fails |-> cf]
    /\ fs = FsOf([r \in Roots |-> IF r = ReqRoot THEN "dir_rw" ELSE "absent"], NONE)
    /\ disk = <<>>
    /\ out = <<>>
    /\ ret = [exc |-> NoExc, at |-> NONE]
    /\ run = NONE

\* try_save(program_dirs, a.df, file_stem, a.file_type, a.selection,
\* a.cleaning), then on to `next`
SaveArtifact(a, next) ==
    LET r == SavingTrySave(args.program_dirs, a.df, args.file_stem,
                           a.file_type, a.selection, a.cleaning,
                           args.json_fails, args.csv_fails, disk, out)
    IN  /\ IF r.exc # NoExc
           THEN Raise(r.exc, pc)
           ELSE pc' = next /\ UNCHANGED ret
        /\ disk' = r.disk
        /\ out' = r.out
        /\ UNCHANGED <<args, fs, run>>

SaveFirst == pc = "feature_call" /\ SaveArtifact(args.first, "first_saved")

SaveSecond == pc = "first_saved" /\ SaveArtifact(args.second, "both_saved")

NextFeature == SaveFirst \/ SaveSecond

SpecFeature == InitFeature /\ [][NextFeature]_vars

\* the selection method with None read as "none"
NormalSelection(s) == IF s = NONE THEN "none" ELSE s

====
